---------------------------- MODULE Spec2Model ----------------------------
(***************************************************************************)
(* Model of the KSEBL LT line monitoring dashboard                         *)
(* (src/components/ksebl-dashboard.tsx): the line registry, the            *)
(* notification log, the report, the Leaflet map layers and the lazy,      *)
(* asynchronous load of the map library.                                   *)
(*                                                                         *)
(* One action is one browser event: a click handler together with the      *)
(* re-render and the effects React runs before the next event, or the      *)
(* completion of the asynchronous import, or a tile / focus event.         *)
(* Callbacks created by an earlier render keep the `lines` of that render; *)
(* refs (mapRef, leafletRef, layersRef, hiddenLinesRef) are read live.     *)
(* downloadCSV (lines 241-252) reads `lines` and writes no state of the    *)
(* component; it has no action here.                                       *)
(***************************************************************************)
EXTENDS Integers, Sequences, FiniteSets, TLC

VARIABLES
    lines,            \* useState<LTLine[]>                       (line 58)
    selectedLineId,   \* useState<string>                         (line 59)
    notifications,    \* useState<NotificationItem[]>, newest first (line 60)
    mapError,         \* useState<string | null>                  (line 61)
    mapLoaded,        \* useState(false)                          (line 62)
    mapRef,           \* the Leaflet map exists                   (line 65)
    leafletRef,       \* the Leaflet module is loaded             (line 66)
    layersRef,        \* line id -> {polyline, marker}            (line 67)
    hiddenLinesRef,   \* Set<string> of hidden line ids           (line 68)
    mapLayers,        \* the map's attached line layers: layer -> number of attachments
    tileLayers,       \* number of tile layers added to the map
    mapView,          \* "initial" (center/zoom of L.map) or "fitted" (fitBounds)
    focusOnce,        \* the map.once("focus") handler is registered and has not fired
    observer,         \* IntersectionObserver: "observing" or "disconnected"
    pendingLoad,      \* `await import("leaflet")` calls in flight, with their closure
    clock,            \* now(): strictly increasing from one event to the next
    lastEvent         \* the handler that ran last (history)

vars == <<lines, selectedLineId, notifications, mapError, mapLoaded, mapRef,
          leafletRef, layersRef, hiddenLinesRef, mapLayers, tileLayers, mapView,
          focusOnce, observer, pendingLoad, clock, lastEvent>>

(***************************************************************************)
(* Bounds of the model.                                                    *)
(***************************************************************************)
\* now() never exceeds MaxClock: at most MaxClock events that read the time,
MaxClock == 3
\* and at most MaxMapClock of them once the map container has come into view.
MaxMapClock == 2
\* At most MaxTileLayers tile layers are stacked on the map by retries.
MaxTileLayers == 2

(***************************************************************************)
(* Types, constants of the program.                                        *)
(***************************************************************************)
LineStatus == {"Healthy", "Fault", "Shutoff"}

\* .slice(0, 20)
MaxNotifications == 20

Null == "null"

statusColors(status) ==
    CASE status = "Healthy" -> [stroke |-> "#22c55e", fill |-> "#22c55e", dashArray |-> "undefined"]
      [] status = "Fault"   -> [stroke |-> "#ef4444", fill |-> "#ef4444", dashArray |-> "undefined"]
      [] status = "Shutoff" -> [stroke |-> "#6b7280", fill |-> "#6b7280", dashArray |-> "6 6"]

\* Coordinates are in thousandths of a degree.
initialLines ==
    << [id |-> "lt-1", name |-> "LT Line - Trivandrum North",
        coords |-> << <<8508, 76956>>, <<8545, 76980>>, <<8580, 76990>> >>,
        status |-> "Healthy"],
       [id |-> "lt-2", name |-> "LT Line - Kochi Coastal",
        coords |-> << <<9940, 76270>>, <<9970, 76310>>, <<10020, 76320>>, <<10060, 76340>> >>,
        status |-> "Healthy"],
       [id |-> "lt-3", name |-> "LT Line - Kozhikode Rural",
        coords |-> << <<11240, 75770>>, <<11280, 75800>>, <<11310, 75830>> >>,
        status |-> "Shutoff"] >>

LineIds == {initialLines[i].id : i \in DOMAIN initialLines}

MsgLibraryLoad  == "Failed to load map library. Please check your connection and retry."
MsgLibraryRetry == "Failed to load map library. Please retry."
MsgInit         == "Failed to initialize the map. Please retry."
MsgTiles        == "Map tiles failed to load. Please check network or try again."
ErrorMessages   == {MsgLibraryLoad, MsgLibraryRetry, MsgInit, MsgTiles}


(***************************************************************************)
(* Notifications (lines 203-207) and the registry update (lines 210-214).  *)
(***************************************************************************)
Min(a, b) == IF a <= b THEN a ELSE b

\* The item built at line 205. Its id is `${now()}-${Math.random()}`: the time part
\* alone identifies it here, the clock being strictly increasing.
NotificationItem(lineId, message, status, t) ==
    [id |-> t, ts |-> t, lineId |-> lineId, message |-> message, status |-> status]

\* Mutant: the item is put at the end, [...prev, item].slice(0, 20)
AddNotificationAtEnd(prev, lineId, message, status, t) ==
    LET all == prev \o <<NotificationItem(lineId, message, status, t)>>
    IN  SubSeq(all, 1, Min(Len(all), MaxNotifications))

\* Mutant: the cap keeps one entry too many, .slice(0, 21)
AddNotificationOffByOne(prev, lineId, message, status, t) ==
    LET all == <<NotificationItem(lineId, message, status, t)>> \o prev
    IN  SubSeq(all, 1, Min(Len(all), MaxNotifications + 1))

\* [item, ...prev].slice(0, 20)
AddNotification(prev, lineId, message, status, t) ==
    LET all == <<NotificationItem(lineId, message, status, t)>> \o prev
    IN  SubSeq(all, 1, Min(Len(all), MaxNotifications))

\* lines.find((l) => l.id === lineId)?.name ?? "Line"
LineName(ls, lineId) ==
    IF \E i \in DOMAIN ls : ls[i].id = lineId
    THEN LET i == CHOOSE j \in DOMAIN ls :
                    ls[j].id = lineId /\ \A k \in DOMAIN ls : ls[k].id = lineId => j <= k
         IN  ls[i].name
    ELSE "Line"

\* `${lineName} status changed to ${status}`
StatusMessage(lineName, status) == <<lineName, " status changed to ", status>>

\* Mutant: the new status is not written, prev.map((l) => ({ ...l }))
MapStatusUnwritten(prev, lineId, status) == [i \in DOMAIN prev |-> prev[i]]

\* Mutant: the id test is dropped, prev.map((l) => ({ ...l, status }))
MapStatusAll(prev, lineId, status) ==
    [i \in DOMAIN prev |-> [prev[i] EXCEPT !.status = status]]

\* prev.map((l) => (l.id === lineId ? { ...l, status } : l))
MapStatus(prev, lineId, status) ==
    [i \in DOMAIN prev |->
        IF prev[i].id = lineId THEN [prev[i] EXCEPT !.status = status] ELSE prev[i]]

\* Mutant: the filter is dropped, every line is a candidate
CandidatesAll(ls) == ls

\* lines.filter((l) => l.status !== "Fault")
Candidates(ls) == SelectSeq(ls, LAMBDA l : l.status # "Fault")

(***************************************************************************)
(* Report (lines 71-77).                                                   *)
(***************************************************************************)
RECURSIVE CountStatus(_, _)
\* for (const l of lines) counts[l.status]++
CountStatus(ls, counts) ==
    IF ls = <<>> THEN counts
    ELSE CountStatus(Tail(ls), [counts EXCEPT ![Head(ls).status] = @ + 1])

\* (x / total).toFixed(1) for x given in tenths: the nearest tenth, as the number
\* of tenths (897 is "89.7").
ToFixed1(tenths, total) == (2 * tenths + total) \div (2 * total)

\* Mutant: Shutoff lines are left out of the total
ReportOfEnergised(ls) ==
    LET counts == CountStatus(ls, [s \in LineStatus |-> 0])
        total  == IF counts["Healthy"] + counts["Fault"] # 0
                  THEN counts["Healthy"] + counts["Fault"] ELSE 1
    IN  [counts |-> counts,
         total  |-> total,
         uptime |-> ToFixed1(counts["Healthy"] * 995 + counts["Fault"] * 700, total)]

Report(ls) ==
    LET counts == CountStatus(ls, [s \in LineStatus |-> 0])
        total  == IF Len(ls) # 0 THEN Len(ls) ELSE 1
    IN  [counts |-> counts,
         total  |-> total,
         uptime |-> ToFixed1(counts["Healthy"] * 995 + counts["Fault"] * 700, total)]

(***************************************************************************)
(* Map layers (lines 151-191, 217-231).  `r` holds the refs the functions  *)
(* read and write: leafletRef, mapRef, layersRef, hiddenLinesRef, and the  *)
(* layers attached to the map.                                             *)
(***************************************************************************)
Refs(L, map, layers, hidden, attached) ==
    [leafletRef |-> L, mapRef |-> map, layersRef |-> layers,
     hiddenLinesRef |-> hidden, mapLayers |-> attached]

\* layer.addTo(map): Leaflet attaches a layer the map does not hold yet.
AddTo(attached, layer) ==
    IF layer \in DOMAIN attached THEN attached ELSE attached @@ (layer :> 1)

\* layer.remove() / map.removeLayer(layer)
RemoveLayer(attached, layer) == [x \in DOMAIN attached \ {layer} |-> attached[x]]

\* L.polyline(line.coords, {color, weight, opacity, dashArray})
Polyline(line, t) ==
    LET colors == statusColors(line.status)
    IN  [kind |-> "polyline", lineId |-> line.id, latlngs |-> line.coords,
         color |-> colors.stroke, fillColor |-> "undefined",
         dashArray |-> colors.dashArray, popup |-> <<>>, created |-> t]

\* L.circleMarker(mid, {...}).bindPopup(name, status, formatTime(now()))
CircleMarker(line, t) ==
    LET colors == statusColors(line.status)
        midIdx == Len(line.coords) \div 2
    IN  [kind |-> "marker", lineId |-> line.id, latlngs |-> <<line.coords[midIdx + 1]>>,
         color |-> colors.stroke, fillColor |-> colors.fill,
         dashArray |-> "undefined", popup |-> <<line.name, line.status, t>>, created |-> t]

\* Mutant: the new layers are attached without the test of hiddenLinesRef
AddOrUpdateLineLayerAlwaysAttached(r, line, t) ==
    IF ~r.leafletRef \/ ~r.mapRef THEN r
    ELSE
      LET removed  == IF line.id \in DOMAIN r.layersRef
                      THEN RemoveLayer(RemoveLayer(r.mapLayers, r.layersRef[line.id].polyline),
                                       r.layersRef[line.id].marker)
                      ELSE r.mapLayers
          polyline == Polyline(line, t)
          marker   == CircleMarker(line, t)
      IN  [r EXCEPT !.mapLayers = AddTo(AddTo(removed, polyline), marker),
                    !.layersRef = (line.id :> [polyline |-> polyline, marker |-> marker]) @@ @]

AddOrUpdateLineLayer(r, line, t) ==
    IF ~r.leafletRef \/ ~r.mapRef THEN r
    ELSE
      LET removed  == IF line.id \in DOMAIN r.layersRef
                      THEN RemoveLayer(RemoveLayer(r.mapLayers, r.layersRef[line.id].polyline),
                                       r.layersRef[line.id].marker)
                      ELSE r.mapLayers
          polyline == Polyline(line, t)
          marker   == CircleMarker(line, t)
          isHidden == line.id \in r.hiddenLinesRef
          attached == IF ~isHidden THEN AddTo(AddTo(removed, polyline), marker) ELSE removed
      IN  [r EXCEPT !.mapLayers = attached,
                    !.layersRef = (line.id :> [polyline |-> polyline, marker |-> marker]) @@ @]

RECURSIVE ForEachLine(_, _, _)
\* lines.forEach(addOrUpdateLineLayer) / for (const line of lines) addOrUpdateLineLayer(line)
ForEachLine(r, ls, t) ==
    IF ls = <<>> THEN r
    ELSE ForEachLine(AddOrUpdateLineLayer(r, Head(ls), t), Tail(ls), t)

\* useEffect(..., [lines]) at lines 286-290
SyncLayers(r, ls, t) ==
    IF ~r.mapRef \/ ~r.leafletRef THEN r ELSE ForEachLine(r, ls, t)

\* Mutant: showing a line leaves its id in hiddenLinesRef
ToggleLineVisibilityKeepsHidden(r, lineId, visible) ==
    IF ~r.mapRef \/ lineId \notin DOMAIN r.layersRef THEN r
    ELSE
      LET layers == r.layersRef[lineId]
      IN  IF visible
          THEN [r EXCEPT !.mapLayers = AddTo(AddTo(@, layers.polyline), layers.marker)]
          ELSE [r EXCEPT !.hiddenLinesRef = @ \cup {lineId},
                         !.mapLayers = RemoveLayer(RemoveLayer(@, layers.polyline), layers.marker)]

ToggleLineVisibility(r, lineId, visible) ==
    IF ~r.mapRef \/ lineId \notin DOMAIN r.layersRef THEN r
    ELSE
      LET layers == r.layersRef[lineId]
      IN  IF visible
          THEN [r EXCEPT !.hiddenLinesRef = @ \ {lineId},
                         !.mapLayers = AddTo(AddTo(@, layers.polyline), layers.marker)]
          ELSE [r EXCEPT !.hiddenLinesRef = @ \cup {lineId},
                         !.mapLayers = RemoveLayer(RemoveLayer(@, layers.polyline), layers.marker)]

\* The time can still be read within the bounds.
CanTick == clock < MaxClock /\ (observer = "disconnected" => clock < MaxMapClock)

CurrentRefs == Refs(leafletRef, mapRef, layersRef, hiddenLinesRef, mapLayers)

SetRefs(r) ==
    /\ leafletRef' = r.leafletRef
    /\ mapRef' = r.mapRef
    /\ layersRef' = r.layersRef
    /\ hiddenLinesRef' = r.hiddenLinesRef
    /\ mapLayers' = r.mapLayers

(***************************************************************************)
(* The state after construction (lines 58-68).                             *)
(***************************************************************************)
Mounted ==
    /\ lines = initialLines
    /\ selectedLineId = initialLines[1].id
    /\ mapError = Null
    /\ mapLoaded = FALSE
    /\ mapRef = FALSE
    /\ leafletRef = FALSE
    /\ layersRef = <<>>
    /\ hiddenLinesRef = {}
    /\ mapLayers = <<>>
    /\ tileLayers = 0
    /\ mapView = "initial"
    /\ focusOnce = FALSE
    /\ observer = "observing"
    /\ pendingLoad = {}
    /\ clock = 0
    /\ lastEvent = "mount"

Init ==
    /\ Mounted
    /\ notifications = <<>>

(***************************************************************************)
(* Control panel (lines 346-402).                                          *)
(***************************************************************************)
\* <select onChange={(e) => setSelectedLineId(e.target.value)}>
SelectLine(id) ==
    /\ id # selectedLineId
    /\ selectedLineId' = id
    /\ lastEvent' = "select"
    /\ UNCHANGED <<lines, notifications, mapError, mapLoaded, mapRef, leafletRef,
                   layersRef, hiddenLinesRef, mapLayers, tileLayers, mapView,
                   focusOnce, observer, pendingLoad, clock>>

\* updateLineStatus(lineId, status), the re-render, and the effect on [lines]
UpdateLineStatus(lineId, status, ev) ==
    LET t        == clock + 1
        lineName == LineName(lines, lineId)
        newLines == MapStatus(lines, lineId, status)
    IN  /\ CanTick
        /\ clock' = t
        /\ lines' = newLines
        /\ notifications' =
              AddNotification(notifications, lineId, StatusMessage(lineName, status), status, t)
        /\ SetRefs(SyncLayers(CurrentRefs, newLines, t))
        /\ lastEvent' = ev
        /\ UNCHANGED <<selectedLineId, mapError, mapLoaded, tileLayers, mapView,
                       focusOnce, observer, pendingLoad>>

\* The "Set Healthy", "Set Fault" and "Shutoff" buttons
SetStatus(status) ==
    UpdateLineStatus(selectedLineId, status, "setStatus")

\* The "Simulate Random Fault" button
SimulateFault ==
    LET candidates == Candidates(lines)
    IN  IF candidates # <<>>
        THEN \E k \in DOMAIN candidates :
                UpdateLineStatus(candidates[k].id, "Fault", "simulateFault")
        ELSE /\ lastEvent' = "simulateFault: no candidate"
             /\ UNCHANGED <<lines, selectedLineId, notifications, mapError, mapLoaded,
                            mapRef, leafletRef, layersRef, hiddenLinesRef, mapLayers,
                            tileLayers, mapView, focusOnce, observer, pendingLoad, clock>>

\* The "Show Line" (visible) and "Hide Line" buttons
ToggleVisibility(visible) ==
    /\ SetRefs(ToggleLineVisibility(CurrentRefs, selectedLineId, visible))
    /\ lastEvent' = IF visible THEN "show" ELSE "hide"
    /\ UNCHANGED <<lines, selectedLineId, notifications, mapError, mapLoaded,
                   tileLayers, mapView, focusOnce, observer, pendingLoad, clock>>

\* The "Clear All" button: setNotifications([])
ClearAll ==
    /\ notifications' = <<>>
    /\ lastEvent' = "clearAll"
    /\ UNCHANGED <<lines, selectedLineId, mapError, mapLoaded, mapRef, leafletRef,
                   layersRef, hiddenLinesRef, mapLayers, tileLayers, mapView,
                   focusOnce, observer, pendingLoad, clock>>

(***************************************************************************)
(* Lazy load of Leaflet (lines 80-114), initMap (lines 116-149), tile and  *)
(* focus events, retryMap (lines 255-283).                                 *)
(***************************************************************************)
\* An `await import("leaflet")` in flight.  `closure` is the `lines` of the render
\* that created the callback: initMap reads it when the import resolves.
Load(origin, closure) == [origin |-> origin, lines |-> closure]

\* The observer's callback is created by the effect of the first render (deps []).
ObserverIntersect ==
    /\ observer = "observing"
    /\ observer' = "disconnected"
    /\ pendingLoad' = pendingLoad \cup {Load("observer", initialLines)}
    /\ lastEvent' = "intersect"
    /\ UNCHANGED <<lines, selectedLineId, notifications, mapError, mapLoaded, mapRef,
                   leafletRef, layersRef, hiddenLinesRef, mapLayers, tileLayers,
                   mapView, focusOnce, clock>>

\* Mutant: the catch logs the error and sets no message
LoadErrorSwallowed(origin) == Null

\* catch (e) of the import: lines 104-107 and 277-280
LoadErrorMessage(origin) == IF origin = "observer" THEN MsgLibraryLoad ELSE MsgLibraryRetry

ImportFails(p) ==
    /\ p \in pendingLoad
    /\ pendingLoad' = pendingLoad \ {p}
    /\ mapError' = LoadErrorMessage(p.origin)
    /\ lastEvent' = "importFails"
    /\ UNCHANGED <<lines, selectedLineId, notifications, mapLoaded, mapRef, leafletRef,
                   layersRef, hiddenLinesRef, mapLayers, tileLayers, mapView,
                   focusOnce, observer, clock>>

\* The import resolves and L.map(...) throws: catch (e) at lines 145-148
InitMapThrows(p) ==
    /\ p \in pendingLoad
    /\ ~mapRef
    /\ pendingLoad' = pendingLoad \ {p}
    /\ leafletRef' = TRUE
    /\ mapError' = MsgInit
    /\ lastEvent' = "initMapThrows"
    /\ UNCHANGED <<lines, selectedLineId, notifications, mapLoaded, mapRef,
                   layersRef, hiddenLinesRef, mapLayers, tileLayers, mapView,
                   focusOnce, observer, clock>>

\* The import resolves and initMap(L) runs to its end
InitMap(p) ==
    /\ p \in pendingLoad
    /\ pendingLoad' = pendingLoad \ {p}
    /\ lastEvent' = "initMap"
    /\ IF mapRef
       THEN /\ leafletRef' = TRUE
            /\ UNCHANGED <<mapRef, layersRef, hiddenLinesRef, mapLayers, tileLayers,
                           mapView, focusOnce, clock>>
       ELSE /\ CanTick
            /\ clock' = clock + 1
            /\ tileLayers' = tileLayers + 1
            /\ SetRefs(ForEachLine(Refs(TRUE, TRUE, layersRef, hiddenLinesRef, mapLayers),
                                   p.lines, clock + 1))
            /\ mapView' = "fitted"
            /\ focusOnce' = TRUE
    /\ UNCHANGED <<lines, selectedLineId, notifications, mapError, mapLoaded, observer>>

\* tiles.on("load", ...)
TileLoad ==
    /\ tileLayers > 0
    /\ mapLoaded' = TRUE
    /\ mapError' = Null
    /\ lastEvent' = "tileLoad"
    /\ UNCHANGED <<lines, selectedLineId, notifications, mapRef, leafletRef, layersRef,
                   hiddenLinesRef, mapLayers, tileLayers, mapView, focusOnce, observer,
                   pendingLoad, clock>>

\* tiles.on("tileerror", ...)
TileError ==
    /\ tileLayers > 0
    /\ mapError' = MsgTiles
    /\ lastEvent' = "tileError"
    /\ UNCHANGED <<lines, selectedLineId, notifications, mapLoaded, mapRef, leafletRef,
                   layersRef, hiddenLinesRef, mapLayers, tileLayers, mapView, focusOnce,
                   observer, pendingLoad, clock>>

\* map.once("focus", () => addNotification("system", ..., "Healthy"))
MapFocus ==
    /\ focusOnce
    /\ CanTick
    /\ focusOnce' = FALSE
    /\ clock' = clock + 1
    /\ notifications' = AddNotification(notifications, "system",
                                        <<"Map ready. Use + and - to zoom.">>, "Healthy",
                                        clock + 1)
    /\ lastEvent' = "focus"
    /\ UNCHANGED <<lines, selectedLineId, mapError, mapLoaded, mapRef, leafletRef,
                   layersRef, hiddenLinesRef, mapLayers, tileLayers, mapView, observer,
                   pendingLoad>>

\* The banner's "Retry" button, rendered while mapError is set (lines 299-312)
RetryMap ==
    /\ mapError # Null
    /\ mapError' = Null
    /\ IF leafletRef /\ mapRef
       THEN /\ tileLayers < MaxTileLayers
            /\ tileLayers' = tileLayers + 1
            /\ lastEvent' = "retry: tiles"
            /\ UNCHANGED pendingLoad
       ELSE /\ pendingLoad' = pendingLoad \cup {Load("retry", lines)}
            /\ lastEvent' = "retry: import"
            /\ UNCHANGED tileLayers
    /\ UNCHANGED <<lines, selectedLineId, notifications, mapLoaded, mapRef, leafletRef,
                   layersRef, hiddenLinesRef, mapLayers, mapView, focusOnce, observer,
                   clock>>

Next ==
    \/ \E id \in LineIds : SelectLine(id)
    \/ \E status \in LineStatus : SetStatus(status)
    \/ SimulateFault
    \/ \E visible \in BOOLEAN : ToggleVisibility(visible)
    \/ ClearAll
    \/ ObserverIntersect
    \/ \E p \in pendingLoad : ImportFails(p)
    \/ \E p \in pendingLoad : InitMapThrows(p)
    \/ \E p \in pendingLoad : InitMap(p)
    \/ TileLoad
    \/ TileError
    \/ MapFocus
    \/ RetryMap

Spec == Init /\ [][Next]_vars

(***************************************************************************)
(* The notification log at its capacity.  The second initial state is the  *)
(* state after MaxNotifications presses of "Set Healthy" on the selected   *)
(* (Healthy) line while the map container is still out of view: the        *)
(* registry keeps its seed statuses, the log is full, and the clock's      *)
(* origin is the last of these presses.  The environment is the events     *)
(* that write the log: status changes, the simulator, clear-all, and the   *)
(* map becoming ready and focused (the "system" notification): the events  *)
(* that write the registry and the log.                                    *)
(***************************************************************************)
PreFilled(n) ==
    [i \in 1..n |->
        NotificationItem(initialLines[1].id,
                         StatusMessage(initialLines[1].name, "Healthy"), "Healthy", 1 - i)]

InitLog ==
    /\ Mounted
    /\ notifications \in {PreFilled(0), PreFilled(MaxNotifications)}

NextLog ==
    \/ \E id \in LineIds : SelectLine(id)
    \/ \E status \in LineStatus : SetStatus(status)
    \/ SimulateFault
    \/ ClearAll
    \/ ObserverIntersect
    \/ \E p \in pendingLoad : InitMap(p)
    \/ MapFocus

SpecLog == InitLog /\ [][NextLog]_vars

(***************************************************************************)
(* The map and its layers.  The environment is every event but the two     *)
(* that only write the notification log (clear-all and the map's focus).   *)
(***************************************************************************)
NextMap ==
    \/ \E id \in LineIds : SelectLine(id)
    \/ \E status \in LineStatus : SetStatus(status)
    \/ SimulateFault
    \/ \E visible \in BOOLEAN : ToggleVisibility(visible)
    \/ ObserverIntersect
    \/ \E p \in pendingLoad : ImportFails(p)
    \/ \E p \in pendingLoad : InitMapThrows(p)
    \/ \E p \in pendingLoad : InitMap(p)
    \/ TileLoad
    \/ TileError
    \/ RetryMap

SpecMap == Init /\ [][NextMap]_vars

(***************************************************************************)
(* Claims.                                                                 *)
(***************************************************************************)
LineIndex(lineId) == CHOOSE i \in DOMAIN lines : lines[i].id = lineId

IdsOf(log) == {log[i].id : i \in DOMAIN log}

\* The step put exactly one new notification at the head of the log: for
\* `lineId`, with `status`, its message naming the line's display name and `status`.
OneNotificationAtHead(lineId, status) ==
    /\ notifications' # <<>>
    /\ Len(notifications') <= Len(notifications) + 1
    /\ notifications'[1].id \notin IdsOf(notifications)
    /\ \A i \in 2..Len(notifications') : notifications'[i] = notifications[i - 1]
    /\ Len(notifications') = Len(notifications) + 1 \/ Len(notifications) = MaxNotifications
    /\ notifications'[1].lineId = lineId
    /\ notifications'[1].status = status
    /\ notifications'[1].message[1] = initialLines[LineIndex(lineId)].name
    /\ notifications'[1].message[Len(notifications'[1].message)] = status

\* C1: every setStatus(lineId, s) on a registry line, from a status button or from
\* simulateFault, for every s (the line's present status included), puts exactly
\* one new notification at the head of the log, for that line, with status s and
\* a message naming the line's display name and s.
C1_OneNotificationPerSetStatus ==
    [][ /\ \A s \in LineStatus :
              SetStatus(s) => OneNotificationAtHead(selectedLineId, s)
        /\ \A id \in LineIds :
              UpdateLineStatus(id, "Fault", "simulateFault")
                  => OneNotificationAtHead(id, "Fault") ]_vars

\* A status button was pressed for the status the line already had: the two
\* newest notifications are for the same line and the same status.
C1_Witness ==
    /\ lastEvent = "setStatus"
    /\ Len(notifications) >= 2
    /\ notifications[1].lineId = selectedLineId
    /\ notifications[2].lineId = selectedLineId
    /\ notifications[1].status = notifications[2].status
    /\ notifications[1].id # notifications[2].id

\* C2: the log never holds more than 20 entries and is newest first; an entry
\* added to a log of 20 evicts exactly the oldest, the other 19 keeping their
\* order behind the new one; clear-all leaves the log empty whatever its size.
C2_LogCappedNewestFirst ==
    /\ [](/\ Len(notifications) <= MaxNotifications
          /\ \A i, j \in DOMAIN notifications :
                i < j => notifications[i].ts > notifications[j].ts)
    /\ [][ /\ ClearAll => notifications' = <<>>
           /\ (/\ Len(notifications) = MaxNotifications
               /\ notifications' # notifications
               /\ notifications' # <<>>)
              => /\ Len(notifications') = MaxNotifications
                 /\ notifications'[1].id \notin IdsOf(notifications)
                 /\ \A i \in 2..MaxNotifications : notifications'[i] = notifications[i - 1]
                 /\ notifications[MaxNotifications] \notin
                        {notifications'[i] : i \in DOMAIN notifications'} ]_vars

\* The "system" notification was added to a full log: the log still holds 20.
C2_Witness ==
    /\ lastEvent = "focus"
    /\ Len(notifications) = MaxNotifications
    /\ notifications[1].lineId = "system"
    /\ notifications[2].lineId \in LineIds

\* C3: the lines simulateFault draws from are exactly the lines that are not
\* Fault; with such a line it turns exactly one of them to Fault and adds one
\* notification for it; with every line Fault it leaves the registry and the log
\* as they were.
C3_SimulateFault ==
    [][ /\ \A i \in DOMAIN lines :
              lines[i].status # "Fault"
                  <=> \E k \in DOMAIN Candidates(lines) : Candidates(lines)[k] = lines[i]
        /\ SimulateFault =>
             IF \E i \in DOMAIN lines : lines[i].status # "Fault"
             THEN \E i \in DOMAIN lines :
                     /\ lines[i].status # "Fault"
                     /\ lines' = [lines EXCEPT ![i].status = "Fault"]
                     /\ OneNotificationAtHead(lines[i].id, "Fault")
             ELSE lines' = lines /\ notifications' = notifications ]_vars

\* simulateFault was pressed with every line in Fault.
C3_Witness ==
    /\ lastEvent = "simulateFault: no candidate"
    /\ \A i \in DOMAIN lines : lines[i].status = "Fault"

CountOf(status) == Cardinality({i \in DOMAIN lines : lines[i].status = status})

\* C4: the report's counts are the numbers of Healthy, Fault and Shutoff lines,
\* they sum to the total, the total is the number of lines, and the uptime is
\* (Healthy x 99.5 + Fault x 70) / total to the nearest tenth (2 Healthy + 1 Fault
\* of 3 gives 89.7).
C4_Report ==
    LET r == Report(lines)
        H == CountOf("Healthy")
        F == CountOf("Fault")
        S == CountOf("Shutoff")
        d == 2 * (r.uptime * r.total - (H * 995 + F * 700))
    IN  /\ r.counts["Healthy"] = H /\ r.counts["Fault"] = F /\ r.counts["Shutoff"] = S
        /\ H + F + S = r.total
        /\ r.total = Len(lines)
        /\ -r.total <= d /\ d <= r.total
        /\ (H = 2 /\ F = 1) => r.uptime = 897

\* The registry holds 2 Healthy lines and 1 Fault line after a status change.
C4_Witness ==
    /\ lastEvent = "setStatus"
    /\ CountOf("Healthy") = 2
    /\ CountOf("Fault") = 1
    /\ Report(lines).uptime = 897

\* C8: setStatus changes the status of the line with the given id and nothing
\* else in the registry, and the registry always holds the three seed lines in
\* their order, with unique ids and their names and coordinates.
C8_OnlyStatusChanges ==
    /\ [](/\ Len(lines) = Len(initialLines)
          /\ \A i \in DOMAIN lines :
                /\ lines[i].id = initialLines[i].id
                /\ lines[i].name = initialLines[i].name
                /\ lines[i].coords = initialLines[i].coords
                /\ lines[i].status \in LineStatus
          /\ \A i, j \in DOMAIN lines : lines[i].id = lines[j].id => i = j)
    /\ [][ \A s \in LineStatus :
             SetStatus(s) =>
                /\ DOMAIN lines' = DOMAIN lines
                /\ \A i \in DOMAIN lines :
                      IF lines[i].id = selectedLineId
                      THEN lines'[i] = [lines[i] EXCEPT !.status = s]
                      ELSE lines'[i] = lines[i] ]_vars

\* A status button changed the selected line's status while the other two lines
\* hold statuses different from it.
C8_Witness ==
    /\ lastEvent = "setStatus"
    /\ lines[LineIndex(selectedLineId)].status
          # initialLines[LineIndex(selectedLineId)].status
    /\ \A i \in DOMAIN lines :
          lines[i].id # selectedLineId
              => lines[i].status # lines[LineIndex(selectedLineId)].status

Style(layer) == <<layer.color, layer.dashArray>>

StyleOf(status) ==
    CASE status = "Healthy" -> <<"#22c55e", "undefined">>   \* green
      [] status = "Fault"   -> <<"#ef4444", "undefined">>   \* red, solid
      [] status = "Shutoff" -> <<"#6b7280", "6 6">>         \* grey, dashed

\* C5: once the map is initialised, between events every line's polyline and
\* marker show the style of the line's status in the registry.
C5_LayersShowRegistryStatus ==
    mapRef =>
        \A i \in DOMAIN lines :
            /\ lines[i].id \in DOMAIN layersRef
            /\ Style(layersRef[lines[i].id].polyline) = StyleOf(lines[i].status)
            /\ layersRef[lines[i].id].marker.color = StyleOf(lines[i].status)[1]
            /\ layersRef[lines[i].id].marker.popup[2] = lines[i].status

Attachments(r, layer) == IF layer \in DOMAIN r.mapLayers THEN r.mapLayers[layer] ELSE 0

AttachedOf(r, lineId, kind) ==
    {l \in DOMAIN r.mapLayers : l.lineId = lineId /\ l.kind = kind}

\* C6: for a line whose layers exist, hide then show leaves exactly one polyline
\* and one marker of the line on the map, the layer objects it had before the
\* hide, and the line out of the hidden set; a further show changes nothing.
C6_HideThenShow ==
    \A id \in DOMAIN layersRef :
        mapRef =>
            LET r0 == CurrentRefs
                r1 == ToggleLineVisibility(r0, id, FALSE)
                r2 == ToggleLineVisibility(r1, id, TRUE)
                r3 == ToggleLineVisibility(r2, id, TRUE)
            IN  /\ id \in r1.hiddenLinesRef
                /\ AttachedOf(r1, id, "polyline") = {} /\ AttachedOf(r1, id, "marker") = {}
                /\ r2.layersRef[id] = r0.layersRef[id]
                /\ AttachedOf(r2, id, "polyline") = {r0.layersRef[id].polyline}
                /\ AttachedOf(r2, id, "marker") = {r0.layersRef[id].marker}
                /\ Attachments(r2, r0.layersRef[id].polyline) = 1
                /\ Attachments(r2, r0.layersRef[id].marker) = 1
                /\ id \notin r2.hiddenLinesRef
                /\ r3 = r2

\* "Show Line" was pressed for a line with layers: the line is attached, not hidden.
C6_Witness ==
    /\ lastEvent = "show"
    /\ mapRef
    /\ selectedLineId \in DOMAIN layersRef
    /\ selectedLineId \notin hiddenLinesRef
    /\ Attachments(CurrentRefs, layersRef[selectedLineId].polyline) = 1
    /\ Attachments(CurrentRefs, layersRef[selectedLineId].marker) = 1
    /\ hiddenLinesRef # {}

\* C7: a failed library load, a failed map initialisation and a failed tile load
\* each leave an error message, with which the retry action is available; a
\* retry clears the message and adds a tile layer when the map widget exists,
\* and starts the library load (followed by the initialisation) when it does not;
\* a tile load clears the error and marks the map loaded.
C7_FailuresAreRetryable ==
    [][ /\ \A p \in pendingLoad : ImportFails(p) => mapError' \in ErrorMessages
        /\ \A p \in pendingLoad : InitMapThrows(p) => mapError' \in ErrorMessages
        /\ TileError => mapError' \in ErrorMessages
        /\ (mapError \in ErrorMessages /\ (mapRef => tileLayers < MaxTileLayers))
              => ENABLED RetryMap
        /\ RetryMap =>
              /\ mapError' = Null
              /\ IF mapRef
                 THEN tileLayers' = tileLayers + 1 /\ pendingLoad' = pendingLoad
                 ELSE /\ tileLayers' = tileLayers
                      /\ \E p \in pendingLoad' \ pendingLoad : p.origin = "retry"
        /\ \A p \in pendingLoad :
              (InitMap(p) /\ ~mapRef) => (leafletRef' /\ mapRef' /\ tileLayers' = 1)
        /\ TileLoad => (mapError' = Null /\ mapLoaded') ]_vars

\* The tiles failed to load, the retry added a second tile layer, and its tiles loaded.
C7_Witness ==
    /\ lastEvent = "tileLoad"
    /\ \E i \in DOMAIN lines : layersRef[lines[i].id].polyline.created > 0
    /\ observer = "disconnected"
    /\ mapError = Null
    /\ mapLoaded
    /\ tileLayers = 2

\* C9: with the map ready, a status change of one line leaves the polyline and
\* marker objects of every other line the objects they were.
C9_OtherLayersKept ==
    [][ \A s \in LineStatus :
          (SetStatus(s) /\ mapRef /\ leafletRef) =>
              \A id \in DOMAIN layersRef :
                  id # selectedLineId => layersRef'[id] = layersRef[id] ]_vars

CurrentLayers == UNION {{layersRef[id].polyline, layersRef[id].marker} : id \in DOMAIN layersRef}

\* C10: each line's current polyline and marker are attached to the map exactly
\* when the line is not hidden, nothing but current layers is attached, and a
\* status change leaves the hidden set as it was.
C10_AttachedIffNotHidden ==
    /\ [](/\ \A id \in DOMAIN layersRef :
                /\ layersRef[id].polyline \in DOMAIN mapLayers <=> id \notin hiddenLinesRef
                /\ layersRef[id].marker \in DOMAIN mapLayers <=> id \notin hiddenLinesRef
          /\ DOMAIN mapLayers \subseteq CurrentLayers
          /\ \A l \in DOMAIN mapLayers : mapLayers[l] = 1
          /\ hiddenLinesRef \subseteq DOMAIN layersRef)
    /\ [][ (lastEvent' \in {"setStatus", "simulateFault"})
              => hiddenLinesRef' = hiddenLinesRef ]_vars

\* The status of a hidden line was changed: its recreated layers are not attached.
C10_Witness ==
    /\ lastEvent = "setStatus"
    /\ selectedLineId \in hiddenLinesRef
    /\ selectedLineId \in DOMAIN layersRef
    /\ layersRef[selectedLineId].polyline \notin DOMAIN mapLayers
    /\ layersRef[selectedLineId].polyline.created = clock
    /\ DOMAIN mapLayers # {}

NotificationsOf(lineId) == {i \in DOMAIN notifications : notifications[i].lineId = lineId}

\* The position of the newest notification of the line: the nearest to the head.
NewestOf(lineId) ==
    CHOOSE i \in NotificationsOf(lineId) : \A j \in NotificationsOf(lineId) : i <= j

\* C11: for every registry line with a notification in the log, the newest
\* notification of that line carries the line's current status.
C11_NewestNotificationIsStatus ==
    \A k \in DOMAIN lines :
        NotificationsOf(lines[k].id) # {}
            => notifications[NewestOf(lines[k].id)].status = lines[k].status

\* After a clear-all, one line's status differs from its seed status with no
\* notification of it left in the log, and another line has two notifications
\* with different statuses, the newer one its current status.
C11_Witness ==
    /\ \E k \in DOMAIN lines :
          /\ lines[k].status # initialLines[k].status
          /\ NotificationsOf(lines[k].id) = {}
    /\ \E k \in DOMAIN lines :
          \E i, j \in NotificationsOf(lines[k].id) :
              /\ i < j
              /\ notifications[i].status # notifications[j].status
              /\ notifications[NewestOf(lines[k].id)].status = lines[k].status
=============================================================================
